---- MODULE Spec2Model ----
(***************************************************************************)
(* Model of V14.py: the library scan with its background metadata worker,  *)
(* the playback queue and play index, the VLC player wrapper, the lyrics   *)
(* panel with its fetch worker, playlists and the persisted state.         *)
(*                                                                         *)
(* Conventions.  Track objects live in `heap` (a Python reference is an    *)
(* index into it); containers hold references.  play_index and table rows  *)
(* are 0-based as in the source; TLA+ sequences are 1-based.  Text values  *)
(* are pairs <<kind, n>>.  Durations are in tenths of a second.            *)
(***************************************************************************)
EXTENDS Integers, Sequences, FiniteSets, TLC

(* ------------------------------ bounds --------------------------------- *)
\* number of mp3 files on disk
NumFiles == 2
\* total number of LibraryPane.load() calls in one session
MaxLoads == 2
\* playback positions 0..MaxPos seconds are distinguished
MaxPos == 4
\* queued trackFinished signals not yet handled
MaxPendingEnd == 1
\* lyrics fetches in flight: the thread runs or its queued call is pending
MaxFetch == 2
\* entries of the history file
MaxHist == 2
\* items of the playlists list widget
MaxPlItems == 2
\* fields of Track objects that carry a value typed into the edit dialog
MaxEdits == 1
\* entries of the file the recommender reads
MaxRecoLen == 4

(* -------------------------- the file system ---------------------------- *)
Paths == 1..NumFiles

\* Folder 1 is a music folder; its last file lies in a sub-folder, folder 2.
\* os.walk is top-down, so a walk of folder 1 ends with the files of folder 2.
FolderIds == {1, 2}

RECURSIVE SeqFromTo(_, _)
SeqFromTo(a, b) ==
    IF a > b THEN <<>> ELSE <<a>> \o SeqFromTo(a + 1, b)

Walk(f) ==
    IF f = 1 THEN SeqFromTo(1, NumFiles) ELSE <<NumFiles>>

RECURSIVE ScanPaths(_)
ScanPaths(fl) ==
    IF fl = <<>> THEN <<>> ELSE Walk(Head(fl)) \o ScanPaths(Tail(fl))

Empty == <<"", 0>>
UnknownArtist == <<"Unknown Artist", 0>>
Stem(p) == <<"stem", p>>

\* What is in file p: readable with tags, readable without an ID3 header,
\* or unreadable.
FileKind(p) ==
    IF p % 3 = 1 THEN "tagged" ELSE IF p % 3 = 2 THEN "notags" ELSE "bad"

DurOf(p) == 600 * p + 15

\* what read_metadata returns for file p when the file is of the given kind:
\* "tagged": MP3 and EasyID3 read it and every statement of the inner try
\*   block runs;
\* "notags": MP3 reads it, EasyID3(path) raises (no ID3 header);
\* "partial": MP3 and EasyID3 read it, title and artist are taken, and the
\*   album statement raises (a frame without text: [][0]);
\* "bad": MP3(path) raises.
ReadAs(kind, p) ==
    IF kind = "tagged"
    THEN [title |-> <<"title", p>>, artist |-> <<"artist", p>>,
          album |-> <<"album", p>>, genre |-> <<"genre", p>>, dur |-> DurOf(p)]
    ELSE IF kind = "notags"
    THEN [title |-> Stem(p), artist |-> Empty, album |-> Empty,
          genre |-> Empty, dur |-> DurOf(p)]
    ELSE IF kind = "partial"
    THEN [title |-> Stem(p), artist |-> <<"artist", p>>, album |-> Empty,
          genre |-> Empty, dur |-> DurOf(p)]
    ELSE [title |-> Stem(p), artist |-> Empty, album |-> Empty,
          genre |-> Empty, dur |-> 0]

\* f"{int(dur//60)}:{int(dur%60):02d}" as the pair <<minutes, seconds>>
DurStr(d) == <<d \div 600, (d % 600) \div 10>>

\* int(m)*60 + int(s), back in tenths
ParseDurStr(s) == (s[1] * 60 + s[2]) * 10

\* Track(path, title, "Unknown Artist", "", "", 0.0)
Placeholder(p) ==
    [path |-> p, title |-> Stem(p), artist |-> UnknownArtist,
     album |-> Empty, genre |-> Empty, duration |-> 0]

\* the six cells of a library table row; the duration cell starts empty
PlaceholderRow(p) ==
    [title |-> Stem(p), artist |-> UnknownArtist, album |-> Empty,
     genre |-> Empty, dur |-> <<-1, -1>>, path |-> p]

Min(a, b) == IF a < b THEN a ELSE b
Max(a, b) == IF a > b THEN a ELSE b

(* ------------------------------ state ---------------------------------- *)
VARIABLES
    pc,          \* "init": MainWindow.__init__ before _load_state; "running";
                 \*   "restarted": the next session, followed no further
    folders,     \* LibraryPane.folders
    heap,        \* every Track object created so far
    tracks,      \* LibraryPane._tracks: references
    ltable,      \* LibraryPane.table rows
    workers,     \* _load_metadata_async threads: [paths, row]
    events,      \* queued invocations waiting for the main thread, FIFO
    queue,       \* MainWindow._queue: references
    play_index,  \* MainWindow._play_index
    qtable,      \* QueueTable rows: the Track in column 0, or 0 for no item
    player,      \* Player: [state, media, repeat, pos]
    playBtn,     \* text of the play button
    now_label,   \* track shown in the now-playing label, 0 for none
    lyrics,      \* LyricsPanel: [lines, idx, track, html]
    fetchers,    \* _fetch_online threads: the Track each was started for
    pls,         \* PlaylistsPane._pls: name -> references
    plist,       \* PlaylistsPane.list items
    history,     \* the history file of _log_play
    env,         \* the session's surroundings: [lrc, sidecar, kind, histOk,
                 \*   loadFail, step, reco, defaults]
    seek,        \* the scrub slider: [value (0..1000), down (held by the user)]
    last         \* the operation that ran last: [op, arg, by]

vars ==
    <<pc, folders, heap, tracks, ltable, workers, events, queue, play_index,
      qtable, player, playBtn, now_label, lyrics, fetchers, pls, plist,
      history, env, seek, last>>

\* read_metadata(path): the file is of the kind the session finds it in
read_metadata(p) == ReadAs(env.kind[p], p)

libVars == <<folders, heap, tracks, ltable, workers>>
queueVars == <<queue, play_index>>
playVars == <<qtable, player, playBtn, now_label, lyrics, fetchers, history>>
plVars == <<pls, plist>>

Done(op, arg) == last' = [op |-> op, arg |-> arg, by |-> "main"]
DoneBy(op, arg, who) == last' = [op |-> op, arg |-> arg, by |-> who]

(* ------------------------- LibraryPane.load ---------------------------- *)
\* The state load() leaves behind for the folder list fl: one new Track and
\* one table row per path found, and a metadata thread started on the paths.
LoadTracks(h, fl) ==
    [i \in 1..Len(ScanPaths(fl)) |-> Len(h) + i]

LoadHeap(h, fl) ==
    h \o [i \in 1..Len(ScanPaths(fl)) |-> Placeholder(ScanPaths(fl)[i])]

LoadTable(fl) ==
    [i \in 1..Len(ScanPaths(fl)) |-> PlaceholderRow(ScanPaths(fl)[i])]

NewWorker(fl) == [paths |-> ScanPaths(fl), row |-> 0]

FinishedWorker == [paths |-> <<>>, row |-> 0]

load(fl) ==
    /\ Len(workers) < MaxLoads
    /\ folders' = fl
    /\ heap' = LoadHeap(heap, fl)
    /\ tracks' = LoadTracks(heap, fl)
    /\ ltable' = LoadTable(fl)
    /\ workers' = Append(workers, NewWorker(fl))

(* ------------------------------ Init ----------------------------------- *)
\* QSlider(Qt.Horizontal) with setRange(0, 1000): value 0, not held
SliderAtStart == [value |-> 0, down |-> FALSE]

IdlePlayer == [state |-> "idle", media |-> 0, repeat |-> FALSE, pos |-> 0]

NoLyrics == [lines |-> <<>>, idx |-> -1, track |-> 0,
             html |-> [kind |-> "empty", doc |-> <<>>]]

\* The state when MainWindow.__init__ reaches _load_state(): the library was
\* built on the default folders df and its first load() has run.
InitWith(df, e) ==
    /\ pc = "init"
    /\ folders = df
    /\ heap = LoadHeap(<<>>, df)
    /\ tracks = LoadTracks(<<>>, df)
    /\ ltable = LoadTable(df)
    /\ workers = <<NewWorker(df)>>
    /\ events = <<>>
    /\ queue = <<>>
    /\ play_index = 0
    /\ qtable = <<>>
    /\ player = IdlePlayer
    /\ playBtn = "play"
    /\ now_label = 0
    /\ lyrics = NoLyrics
    /\ fetchers = <<>>
    /\ pls = <<>>
    /\ plist = <<>>
    /\ history = <<>>
    /\ env = [e EXCEPT !.defaults = df]
    /\ seek = SliderAtStart
    /\ last = [op |-> "init", arg |-> 0, by |-> "main"]

(* ------------------------- library handlers ---------------------------- *)
\* the Rescan button
Rescan ==
    /\ pc = "running"
    /\ load(folders)
    /\ Done("load", 0)
    /\ UNCHANGED <<pc, events, queueVars, playVars, plVars, env, seek>>

InFolders(d, fl) == \E i \in 1..Len(fl) : fl[i] = d

add_folder(d) ==
    /\ pc = "running"
    /\ ~InFolders(d, folders)
    /\ load(Append(folders, d))
    /\ Done("_add_folder", d)
    /\ UNCHANGED <<pc, events, queueVars, playVars, plVars, env, seek>>

(* ---------------------- _load_metadata_async --------------------------- *)
\* The message one loop iteration posts for row `row` of its path list.
RowUpdate(row, path) ==
    [kind |-> "_update_row", row |-> row,
     path |-> path,      \* not sent: the file the values were read from
     title |-> read_metadata(path).title,
     artist |-> read_metadata(path).artist,
     album |-> read_metadata(path).album,
     genre |-> read_metadata(path).genre,
     dur_str |-> DurStr(read_metadata(path).dur)]

\* One iteration of the thread's loop, or its end.
load_metadata_async(w) ==
    /\ w \in 1..Len(workers)
    /\ workers[w] # FinishedWorker
    /\ IF \/ workers[w].row >= Len(workers[w].paths)
          \/ workers[w].row >= Len(tracks)
       THEN /\ workers' = [workers EXCEPT ![w] = FinishedWorker]
            /\ UNCHANGED events
       ELSE /\ events' = Append(events,
                   RowUpdate(workers[w].row, workers[w].paths[workers[w].row + 1]))
            /\ workers' = [workers EXCEPT ![w].row = @ + 1]
    /\ DoneBy("_load_metadata_async", w, "metadata worker")
    /\ UNCHANGED <<pc, folders, heap, tracks, ltable, queueVars, playVars,
                   plVars, env, seek>>

(* --------------------------- _update_row ------------------------------- *)
UpdatedRow(r, m) ==
    [r EXCEPT !.title = m.title, !.artist = m.artist, !.album = m.album,
              !.genre = m.genre, !.dur = m.dur_str]

\* a bug UpdatedTrack could have: the entry takes over the result's path
UpdatedTrackRekeyed(t, m) ==
    [t EXCEPT !.path = m.path, !.title = m.title, !.artist = m.artist,
              !.album = m.album, !.genre = m.genre,
              !.duration = ParseDurStr(m.dur_str)]

UpdatedTrack(t, m) ==
    [t EXCEPT !.title = m.title, !.artist = m.artist, !.album = m.album,
              !.genre = m.genre, !.duration = ParseDurStr(m.dur_str)]

\* whether the slot's first test lets the message through
RowExists(row) == row < Len(ltable)

update_row ==
    /\ pc = "running"
    /\ events # <<>>
    /\ Head(events).kind = "_update_row"
    /\ events' = Tail(events)
    /\ IF RowExists(Head(events).row)
       THEN /\ ltable' = [ltable EXCEPT ![Head(events).row + 1] =
                              UpdatedRow(@, Head(events))]
            /\ IF Head(events).row < Len(tracks)
               THEN heap' = [heap EXCEPT ![tracks[Head(events).row + 1]] =
                                 UpdatedTrack(@, Head(events))]
               ELSE UNCHANGED heap
            /\ Done("_update_row", Head(events))
       ELSE /\ UNCHANGED <<ltable, heap>>
            /\ Done("_update_row dropped", Head(events))
    /\ UNCHANGED <<pc, folders, tracks, workers, queueVars, playVars, plVars,
                   env, seek>>

(* --------------------------- _edit_field ------------------------------- *)
EditFields == {"title", "artist", "album", "genre"}

\* what the user leaves in the dialog: nothing, or a new text
Edited == <<"edited", 0>>
EditValues == {Empty, Edited}

EditsDone ==
    Cardinality({x \in (1..Len(heap)) \X EditFields : heap[x[1]][x[2]] = Edited})

\* the context menu's Edit <field> on row `row`
edit_field(row, field, new) ==
    /\ pc = "running"
    /\ row \in 0..(Len(ltable) - 1)
    /\ row < Len(tracks)
    /\ IF new # Empty
       THEN /\ EditsDone < MaxEdits
            /\ heap' = [heap EXCEPT ![tracks[row + 1]][field] = new]
            /\ ltable' = [ltable EXCEPT ![row + 1][field] = new]
       ELSE UNCHANGED <<heap, ltable>>
    /\ Done("_edit_field", row)
    /\ UNCHANGED <<pc, folders, tracks, workers, events, queueVars, playVars,
                   plVars, env, seek>>

(* ------------------------------ Player --------------------------------- *)
\* Player.load: media_new + set_media; an exception leaves the player as it was
player_load(pl, path, ok) ==
    IF ok THEN [pl EXCEPT !.media = path, !.state = "paused", !.pos = 0]
    ELSE pl

\* Player.play: plays whatever media the player holds
player_play(pl) ==
    IF pl.media = 0 THEN pl
    ELSE [pl EXCEPT !.state = "playing",
                    !.pos = IF pl.state = "ended" THEN 0 ELSE @]

player_pause(pl) ==
    IF pl.state = "playing" THEN [pl EXCEPT !.state = "paused"]
    ELSE IF pl.state = "paused" THEN [pl EXCEPT !.state = "playing"]
    ELSE pl

seek_seconds(pl, s) ==
    IF pl.media = 0 THEN pl ELSE [pl EXCEPT !.pos = s]

is_playing(pl) == pl.state = "playing"

LoadOutcomes == IF env.loadFail THEN BOOLEAN ELSE {TRUE}

(* ------------------------------- LRC ----------------------------------- *)
\* A text is a sequence of lines (splitlines), a line a sequence of tokens: a
\* bracket "[mm:ss.cc]" with its three runs of digits (cc empty: no
\* fraction), or a piece of other text.
Bracket(mm, ss, cc) ==
    [kind |-> "bracket", mm |-> mm, ss |-> ss, cc |-> cc, s |-> Empty]

Piece(s) == [kind |-> "text", mm |-> <<>>, ss |-> <<>>, cc |-> <<>>, s |-> s]

Space == Piece(<<" ", 0>>)

\* time_pat: \[(\d{1,2}):(\d{1,2})(?:\.(\d{1,2}))?\]
time_pat(tok) ==
    /\ tok.kind = "bracket"
    /\ Len(tok.mm) \in 1..2
    /\ Len(tok.ss) \in 1..2
    /\ Len(tok.cc) \in 0..2

RECURSIVE int(_)
\* int() of a run of decimal digits; int(m.group(3) or 0) of no run is 0
int(d) ==
    IF d = <<>> THEN 0
    ELSE int(SubSeq(d, 1, Len(d) - 1)) * 10 + d[Len(d)]

\* mm*60 + ss + cs/100.0, in hundredths of a second
TimeOf(m) == (int(m.mm) * 60 + int(m.ss)) * 100 + int(m.cc)

RECURSIVE lstrip(_)
lstrip(l) == IF l # <<>> /\ Head(l) = Space THEN lstrip(Tail(l)) ELSE l

RECURSIVE rstrip(_)
rstrip(l) ==
    IF l # <<>> /\ l[Len(l)] = Space THEN rstrip(SubSeq(l, 1, Len(l) - 1))
    ELSE l

\* LRC.time_pat.sub("", raw).strip()
LineOf(raw) == rstrip(lstrip(SelectSeq(raw, LAMBDA tok : ~time_pat(tok))))

\* list(LRC.time_pat.finditer(raw))
TimesOf(raw) == SelectSeq(raw, time_pat)

\* the entries one line appends to out
LineEntries(raw) ==
    [i \in 1..Len(TimesOf(raw)) |-> <<TimeOf(TimesOf(raw)[i]), LineOf(raw)>>]

RECURSIVE Out(_)
Out(text) ==
    IF text = <<>> THEN <<>>
    ELSE LineEntries(Head(text)) \o Out(Tail(text))

\* a bug InsertByTime could have: the entry is left where it was appended
InsertAtEnd(sorted, e) == Append(sorted, e)

\* where a stable sort puts e, the last element of the list, among the
\* sorted elements before it: behind every entry whose key is not greater
InsertByTime(sorted, e) ==
    SubSeq(sorted, 1, Cardinality({i \in 1..Len(sorted) : sorted[i][1] <= e[1]}))
        \o <<e>>
        \o SubSeq(sorted,
                  Cardinality({i \in 1..Len(sorted) : sorted[i][1] <= e[1]}) + 1,
                  Len(sorted))

RECURSIVE SortedByTime(_)
\* sorted(out, key=lambda x: x[0])
SortedByTime(out) ==
    IF out = <<>> THEN <<>>
    ELSE InsertByTime(SortedByTime(SubSeq(out, 1, Len(out) - 1)), out[Len(out)])

parse(text) == SortedByTime(Out(text))

\* the text the sessions' sidecar files hold unless said otherwise, and the
\* synced lyrics the network returns: "[00:01]p" and "[00:03]p"; "[00:02]p"
SidecarText(p) ==
    << <<Bracket(<<0, 0>>, <<0, 1>>, <<>>), Piece(<<"lyric", p>>)>>,
       <<Bracket(<<0, 0>>, <<0, 3>>, <<>>), Piece(<<"lyric", p>>)>> >>

OnlineText(p) ==
    << <<Bracket(<<0, 0>>, <<0, 2>>, <<>>), Piece(<<"online", p>>)>> >>

\* the sidecar <base>.lrc of file p, parsed; the online synced lyrics, parsed
LrcDoc(p) == parse(env.sidecar[p])
OnlineDoc(p) == parse(OnlineText(p))

(* --------------------------- LyricsPanel ------------------------------- *)
Html(kind, doc) == [kind |-> kind, doc |-> doc]

LyricsKinds == {"_render", "_render_plain", "setHtml"}

FetchesInFlight ==
    Len(fetchers) + Len(SelectSeq(events, LAMBDA e : e.kind \in LyricsKinds))

\* load_for(t): the sidecar file when there is one, else a fetch thread
load_for(t) ==
    IF heap[t].path \in env.lrc
    THEN /\ lyrics' = [lines |-> LrcDoc(heap[t].path), idx |-> -1, track |-> t,
                       html |-> Html("timed", LrcDoc(heap[t].path))]
         /\ UNCHANGED fetchers
    ELSE /\ FetchesInFlight < MaxFetch
         /\ lyrics' = [lines |-> <<>>, idx |-> -1, track |-> t,
                       html |-> Html("searching", <<>>)]
         /\ fetchers' = Append(fetchers, t)

HistoryEntry(t) ==
    [path |-> heap[t].path, title |-> heap[t].title, artist |-> heap[t].artist]

\* _log_play: read, append, write; any failure is printed and nothing is written
log_play(t) ==
    IF env.histOk
    THEN /\ Len(history) < MaxHist
         /\ history' = Append(history, HistoryEntry(t))
    ELSE UNCHANGED history

(* ---------------------------- the queue -------------------------------- *)
\* Python's seq[i]: negative i counts from the end, IndexError outside
InRange(q, i) == -Len(q) <= i /\ i < Len(q)
PyIndex(q, i) == IF i >= 0 THEN q[i + 1] ELSE q[Len(q) + i + 1]

\* _sync_queue_table: one row per queue entry, the Track in column 0
sync_queue_table(q) == q

\* _play_current for queue q and index i.  An empty queue returns at once; an
\* index outside the queue raises IndexError before anything is done.
play_current(q, i) ==
    IF q = <<>> \/ ~InRange(q, i)
    THEN UNCHANGED playVars
    ELSE \E ok \in LoadOutcomes :
            /\ player' = player_play(player_load(player, heap[PyIndex(q, i)].path, ok))
            /\ playBtn' = "pause"
            /\ now_label' = <<heap[PyIndex(q, i)].title, heap[PyIndex(q, i)].artist>>
            /\ qtable' = sync_queue_table(q)
            /\ load_for(PyIndex(q, i))
            /\ log_play(PyIndex(q, i))

FirstMatch(allt, h, path) ==
    IF \E i \in 1..Len(allt) : h[allt[i]].path = path
    THEN CHOOSE i \in 1..Len(allt) :
            /\ h[allt[i]].path = path
            /\ \A j \in 1..(i - 1) : h[allt[j]].path # path
    ELSE 0

\* a bug RotateQueue could have: the entries before the match are dropped
RotateQueueNoWrap(allt, h, t) ==
    IF FirstMatch(allt, h, h[t].path) = 0 THEN <<t>>
    ELSE SubSeq(allt, FirstMatch(allt, h, h[t].path), Len(allt))

\* the queue play_track builds: the catalog rotated to the first entry with
\* t's path, or [t]
RotateQueue(allt, h, t) ==
    IF FirstMatch(allt, h, h[t].path) = 0 THEN <<t>>
    ELSE SubSeq(allt, FirstMatch(allt, h, h[t].path), Len(allt))
            \o SubSeq(allt, 1, FirstMatch(allt, h, h[t].path) - 1)

Range(s) == {s[i] : i \in 1..Len(s)}

\* Tracks play_track is called with: a clicked library row hands over
\* _tracks[row]; the method itself takes any Track, here also a queued one.
PlayableTracks == Range(tracks) \cup Range(queue)

play_track(t) ==
    /\ pc = "running"
    /\ t \in PlayableTracks
    /\ queue' = RotateQueue(tracks, heap, t)
    /\ play_index' = 0
    /\ play_current(RotateQueue(tracks, heap, t), 0)
    /\ Done("play_track", t)
    /\ UNCHANGED <<pc, libVars, events, plVars, env, seek>>

\* PlaylistsPane._play emits the playlist's tracks; play_playlist
play_playlist(name) ==
    /\ pc = "running"
    /\ name \in Range(plist)
    /\ IF pls[name] = <<>>
       THEN UNCHANGED <<queueVars, playVars>>
       ELSE /\ queue' = pls[name]
            /\ play_index' = 0
            /\ play_current(pls[name], 0)
    /\ Done("play_playlist", IF pls[name] = <<>> THEN "empty" ELSE "play")
    /\ UNCHANGED <<pc, libVars, events, plVars, env, seek>>

RestartThreshold == 3

\* a bug NextIndex could have: past the end it starts over
NextIndexWrapping(q, i) == (i + 1) % Len(q)

NextIndex(q, i) == Min(Len(q) - 1, i + 1)
PrevIndex(q, i) == Max(0, i - 1)

\* whether prev_track restarts the current track instead of stepping back
Restarts(pl) == pl.pos > RestartThreshold

prev_track ==
    /\ pc = "running"
    /\ IF queue = <<>>
       THEN /\ UNCHANGED <<queueVars, playVars>>
            /\ Done("prev_track", "empty")
       ELSE IF Restarts(player)
       THEN /\ player' = seek_seconds(player, 0)
            /\ UNCHANGED <<queueVars, qtable, playBtn, now_label, lyrics,
                           fetchers, history>>
            /\ Done("prev_track", "seek")
       ELSE /\ play_index' = PrevIndex(queue, play_index)
            /\ UNCHANGED queue
            /\ play_current(queue, PrevIndex(queue, play_index))
            /\ Done("prev_track", "step")
    /\ UNCHANGED <<pc, libVars, events, plVars, env, seek>>

\* the body of next_track, shared by the button and by _on_track_end
next_track_body ==
    IF queue = <<>>
    THEN UNCHANGED <<queueVars, playVars>>
    ELSE /\ play_index' = NextIndex(queue, play_index)
         /\ UNCHANGED queue
         /\ play_current(queue, NextIndex(queue, play_index))

next_track ==
    /\ pc = "running"
    /\ next_track_body
    /\ Done("next_track", 0)
    /\ UNCHANGED <<pc, libVars, events, plVars, env, seek>>

\* the queued trackFinished signal reaches MainWindow._on_track_end
on_track_end ==
    /\ pc = "running"
    /\ events # <<>>
    /\ Head(events).kind = "trackFinished"
    /\ events' = Tail(events)
    /\ next_track_body
    /\ Done("_on_track_end", 0)
    /\ UNCHANGED <<pc, libVars, plVars, env, seek>>

\* a click on row `row` of the queue table
play_from_queue(row) ==
    /\ pc = "running"
    /\ row \in 0..(Len(qtable) - 1)
    /\ IF 0 <= row /\ row < Len(queue)
       THEN /\ play_index' = row
            /\ UNCHANGED queue
            /\ play_current(queue, row)
       ELSE UNCHANGED <<queueVars, playVars>>
    /\ Done("_play_from_queue",
            IF 0 <= row /\ row < Len(queue) THEN "play" ELSE "ignored")
    /\ UNCHANGED <<pc, libVars, events, plVars, env, seek>>

(* ------------------ QueueTable.dropEvent and the rebuild ---------------- *)
RemoveAt(s, i) == SubSeq(s, 1, i - 1) \o SubSeq(s, i + 1, Len(s))
InsertAt(s, j, x) == SubSeq(s, 1, j - 1) \o <<x>> \o SubSeq(s, j, Len(s))

\* The table after the toolkit moved row i to row j.  The moved row's item is
\* rebuilt from the drag data; `kept` tells whether its Track came through.
Dropped(tb, i, j, kept) ==
    InsertAt(RemoveAt(tb, i), j, IF kept THEN tb[i] ELSE 0)

HasTrack(c) == c # 0

\* newq of _rebuild_queue_from_table
NewQ(tb) == SelectSeq(tb, HasTrack)

\* a bug RebuildQueue could have: no test that newq holds anything
RebuildQueueUnguarded(q, tb) == NewQ(tb)

RebuildQueue(q, tb) == IF NewQ(tb) # <<>> THEN NewQ(tb) ELSE q

RebuildIndex(q, i, tb) ==
    IF NewQ(tb) # <<>> THEN Min(i, Len(NewQ(tb)) - 1) ELSE i

\* dropEvent, and _rebuild_queue_from_table on its orderChanged signal
dropEvent(i, j, kept) ==
    /\ pc = "running"
    /\ i \in 1..Len(qtable)
    /\ j \in 1..Len(qtable)
    /\ qtable' = Dropped(qtable, i, j, kept)
    /\ queue' = RebuildQueue(queue, Dropped(qtable, i, j, kept))
    /\ play_index' = RebuildIndex(queue, play_index, Dropped(qtable, i, j, kept))
    /\ Done("_rebuild_queue_from_table", 0)
    /\ UNCHANGED <<pc, libVars, events, player, playBtn, now_label, lyrics,
                   fetchers, history, plVars, env, seek>>

(* --------------------------- the engine -------------------------------- *)
PendingEnds == Len(SelectSeq(events, LAMBDA e : e.kind = "trackFinished"))

\* MediaPlayerEndReached on the engine's thread: Player._on_end
on_end ==
    /\ player.state = "playing"
    /\ IF player.repeat
       THEN /\ player' = player_play(seek_seconds([player EXCEPT !.state = "ended"], 0))
            /\ UNCHANGED events
       ELSE /\ PendingEnds < MaxPendingEnd
            /\ player' = [player EXCEPT !.state = "ended"]
            /\ events' = Append(events, [kind |-> "trackFinished"])
    /\ DoneBy("_on_end", 0, "engine")
    /\ UNCHANGED <<pc, libVars, queueVars, qtable, playBtn, now_label, lyrics,
                   fetchers, history, plVars, env, seek>>

\* playback moves on; the position is observed every env.step seconds
get_position_seconds ==
    /\ player.state = "playing"
    /\ player.pos + env.step <= MaxPos
    /\ player' = [player EXCEPT !.pos = @ + env.step]
    /\ DoneBy("position", 0, "engine")
    /\ UNCHANGED <<pc, libVars, events, queueVars, qtable, playBtn, now_label,
                   lyrics, fetchers, history, plVars, env, seek>>

toggle_play ==
    /\ pc = "running"
    /\ IF is_playing(player)
       THEN /\ player' = player_pause(player)
            /\ playBtn' = "play"
       ELSE /\ player' = player_play(player)
            /\ playBtn' = "pause"
    /\ Done("toggle_play", 0)
    /\ UNCHANGED <<pc, libVars, events, queueVars, qtable, now_label, lyrics,
                   fetchers, history, plVars, env, seek>>

toggle_repeat ==
    /\ pc = "running"
    /\ player' = [player EXCEPT !.repeat = ~@]
    /\ Done("toggle_repeat", 0)
    /\ UNCHANGED <<pc, libVars, events, queueVars, qtable, playBtn, now_label,
                   lyrics, fetchers, history, plVars, env, seek>>

(* ----------------------- LyricsPanel._fetch_online --------------------- *)
FetchOutcomes == {"synced", "plain", "none", "error"}

\* what the thread does to the panel's lines on its own thread
FetchedLines(ly, t, outcome) ==
    IF outcome = "synced" THEN OnlineDoc(heap[t].path) ELSE ly.lines

\* a bug FetchMessage could have: a failed request ends in the timed view
FetchMessageAlwaysRender(t, outcome) == [kind |-> "_render"]

FetchMessage(t, outcome) ==
    IF outcome = "synced" THEN [kind |-> "_render"]
    ELSE IF outcome = "plain" THEN [kind |-> "_render_plain", text |-> heap[t].path]
    ELSE [kind |-> "setHtml"]

fetch_online(f, outcome) ==
    /\ f \in 1..Len(fetchers)
    /\ lyrics' = [lyrics EXCEPT !.lines = FetchedLines(lyrics, fetchers[f], outcome)]
    /\ events' = Append(events, FetchMessage(fetchers[f], outcome))
    /\ fetchers' = RemoveAt(fetchers, f)
    /\ DoneBy("_fetch_online", outcome, "lyrics worker")
    /\ UNCHANGED <<pc, libVars, queueVars, qtable, player, playBtn, now_label,
                   history, plVars, env, seek>>

\* the three queued calls a fetch thread can post
render ==
    /\ pc = "running"
    /\ events # <<>>
    /\ Head(events).kind = "_render"
    /\ events' = Tail(events)
    /\ lyrics' = [lyrics EXCEPT !.html = Html("timed", lyrics.lines)]
    /\ Done("_render", 0)
    /\ UNCHANGED <<pc, libVars, queueVars, qtable, player, playBtn, now_label,
                   fetchers, history, plVars, env, seek>>

render_plain ==
    /\ pc = "running"
    /\ events # <<>>
    /\ Head(events).kind = "_render_plain"
    /\ events' = Tail(events)
    /\ lyrics' = [lyrics EXCEPT !.html = Html("plain", <<Head(events).text>>)]
    /\ Done("_render_plain", 0)
    /\ UNCHANGED <<pc, libVars, queueVars, qtable, player, playBtn, now_label,
                   fetchers, history, plVars, env, seek>>

setHtml ==
    /\ pc = "running"
    /\ events # <<>>
    /\ Head(events).kind = "setHtml"
    /\ events' = Tail(events)
    /\ lyrics' = [lyrics EXCEPT !.html = Html("notfound", <<>>)]
    /\ Done("setHtml", 0)
    /\ UNCHANGED <<pc, libVars, queueVars, qtable, player, playBtn, now_label,
                   fetchers, history, plVars, env, seek>>

(* ---------------------------- playlists -------------------------------- *)
PlNames == {"A", "B"}

\* PlaylistsPane.add_playlist on the dict pl
AddedPlaylist(pl, name, ids) ==
    [n \in (DOMAIN pl) \cup {name} |-> IF n = name THEN ids ELSE pl[n]]

\* Save Queue as Playlist
save_current(name) ==
    /\ pc = "running"
    /\ name \in PlNames
    /\ IF queue = <<>>
       THEN UNCHANGED plVars
       ELSE /\ Len(plist) < MaxPlItems
            /\ pls' = AddedPlaylist(pls, name, queue)
            /\ plist' = Append(plist, name)
    /\ Done("_save_current", name)
    /\ UNCHANGED <<pc, libVars, events, queueVars, playVars, env, seek>>

\* the context menu's "Add to Playlist" on a library row; name is what the
\* dialog returned, "" when it was cancelled or left empty
add_to_playlist(row, name) ==
    /\ pc = "running"
    /\ row < Len(tracks)
    /\ IF name = ""
       THEN UNCHANGED plVars
       ELSE /\ Len(plist) < MaxPlItems
            /\ pls' = AddedPlaylist(pls, name, <<tracks[row + 1]>>)
            /\ plist' = Append(plist, name)
    /\ Done("_add_to_playlist", name)
    /\ UNCHANGED <<pc, libVars, events, queueVars, playVars, env, seek>>

(* ------------------------ _make_recommended ---------------------------- *)
\* the entries that pass `if d.get("artist")`
WithArtist(a) == a # Empty

Occurrences(s, a) == Cardinality({i \in 1..Len(s) : s[i] = a})

\* the keys of Counter(s), in the order they were first counted
RECURSIVE FirstSeen(_)
FirstSeen(s) ==
    IF s = <<>> THEN <<>>
    ELSE LET r == FirstSeen(SubSeq(s, 1, Len(s) - 1))
         IN  IF \E i \in 1..Len(r) : r[i] = s[Len(s)] THEN r
             ELSE Append(r, s[Len(s)])

\* a bug InsertByCount could have: x goes ahead of the keys it ties with
InsertByCountTiesFirst(sorted, x, s) ==
    LET ahead == {i \in 1..Len(sorted) :
                    Occurrences(s, sorted[i]) > Occurrences(s, x)}
        k == Cardinality(ahead)
    IN  SubSeq(sorted, 1, k) \o <<x>> \o SubSeq(sorted, k + 1, Len(sorted))

\* x put into `sorted` behind every key that counts at least as often in s
InsertByCount(sorted, x, s) ==
    LET ahead == {i \in 1..Len(sorted) :
                    Occurrences(s, sorted[i]) >= Occurrences(s, x)}
        k == Cardinality(ahead)
    IN  SubSeq(sorted, 1, k) \o <<x>> \o SubSeq(sorted, k + 1, Len(sorted))

\* sorted(keys, key=count, reverse=True): a stable sort
RECURSIVE SortedByCount(_, _)
SortedByCount(keys, s) ==
    IF keys = <<>> THEN <<>>
    ELSE InsertByCount(SortedByCount(SubSeq(keys, 1, Len(keys) - 1), s),
                       keys[Len(keys)], s)

TopN == 3

\* Counter(...).most_common(n), the keys only
most_common(s, n) ==
    SubSeq(SortedByCount(FirstSeen(s), s), 1,
           Min(n, Len(SortedByCount(FirstSeen(s), s))))

\* top_artists for the file's "artist" values
TopArtists(artists) == most_common(SelectSeq(artists, WithArtist), TopN)

\* the two loops: per top artist, the catalog tracks of that artist
RECURSIVE Recommended(_, _, _)
Recommended(top, allt, h) ==
    IF top = <<>> THEN <<>>
    ELSE SelectSeq(allt, LAMBDA t : h[t].artist = Head(top))
            \o Recommended(Tail(top), allt, h)

RecoName == "Recommended"

\* the Recommended button
make_recommended ==
    /\ pc = "running"
    /\ IF ~env.reco.exists
       THEN /\ UNCHANGED plVars
            /\ Done("_make_recommended", "no history")
       ELSE /\ Len(plist) < MaxPlItems
            /\ pls' = AddedPlaylist(pls, RecoName,
                          Recommended(TopArtists(env.reco.artists), tracks, heap))
            /\ plist' = Append(plist, RecoName)
            /\ Done("_make_recommended", TopArtists(env.reco.artists))
    /\ UNCHANGED <<pc, libVars, events, queueVars, playVars, env, seek>>

(* ---------------------- Track.to_dict / from_dict ---------------------- *)
\* the JSON object to_dict writes for a Track
to_dict(t) ==
    [path |-> t.path, title |-> t.title, artist |-> t.artist,
     album |-> t.album, genre |-> t.genre, duration |-> t.duration]

\* an array element that is not a JSON object: x.get raises on it
BadRec ==
    [path |-> 0, title |-> Empty, artist |-> Empty, album |-> Empty,
     genre |-> Empty, duration |-> 0]

IsDict(x) == x # BadRec

AllDicts(recs) == \A i \in 1..Len(recs) : IsDict(recs[i])

\* Track(**{k: d.get(k, "") for k in (...)})
from_dict(d) ==
    [path |-> d.path, title |-> d.title, artist |-> d.artist,
     album |-> d.album, genre |-> d.genre, duration |-> d.duration]

(* --------------------------- _load_state ------------------------------- *)
\* a track record of the state file, as an earlier session saved it
SavedRec(p) ==
    [path |-> p, title |-> read_metadata(p).title,
     artist |-> read_metadata(p).artist, album |-> read_metadata(p).album,
     genre |-> read_metadata(p).genre,
     duration |-> ParseDurStr(DurStr(read_metadata(p).dur))]

SavedRecs(paths) == [i \in 1..Len(paths) |-> SavedRec(paths[i])]

\* [Track.from_dict(x) for x in arr]: new objects
FromDicts(h, recs) == h \o [i \in 1..Len(recs) |-> from_dict(recs[i])]
Refs(h, n) == [i \in 1..n |-> Len(h) + i]

\* The state file: whether it exists, whether it parses as a JSON object, and
\* its four entries; playlists in the order of the JSON object's keys.
NoFile ==
    [exists |-> FALSE, valid |-> TRUE, folders |-> <<>>, playlists |-> <<>>,
     queue |-> <<>>, play_index |-> 0]

\* a file with the records of the given paths
Saved(fl, pl, q, pi) ==
    [exists |-> TRUE, valid |-> TRUE, folders |-> fl,
     playlists |-> [i \in 1..Len(pl) |->
                      [name |-> pl[i].name, recs |-> SavedRecs(pl[i].paths)]],
     queue |-> SavedRecs(q), play_index |-> pi]

OnePlaylist == <<[name |-> "A", paths |-> <<NumFiles, 1>>]>>

\* The state files a session may find: none; files an earlier session of the
\* program wrote; and files whose play_index is not one the program wrote.
SavedStates ==
    {NoFile,
     Saved(<<>>, <<>>, <<>>, 0),
     Saved(<<1>>, OnePlaylist, <<2, 1>>, 1),
     Saved(<<1, 2>>, <<>>, <<1>>, 0),
     Saved(<<2>>, OnePlaylist, <<1, 2>>, 0),
     Saved(<<>>, <<>>, <<2, 1>>, NumFiles + 4),
     Saved(<<2>>, <<>>, <<1, 2>>, -1),
     Saved(<<>>, <<>>, <<1>>, -2)}

\* state files that differ in the folder list only
FolderStates ==
    {NoFile,
     Saved(<<2>>, <<>>, <<>>, 0),
     Saved(<<1, 2>>, <<>>, <<>>, 0)}

\* what _load_state reads and writes, as one record
Current ==
    [folders |-> folders, heap |-> heap, tracks |-> tracks, ltable |-> ltable,
     workers |-> workers, pls |-> pls, plist |-> plist, queue |-> queue,
     play_index |-> play_index, qtable |-> qtable, failed |-> FALSE]

\* the playlists loop: add_playlist(name, [from_dict ...]) per entry; the
\* list comprehension raises on the first element that is not an object
RECURSIVE RestorePlaylists(_, _)
RestorePlaylists(st, entries) ==
    IF entries = <<>> THEN st
    ELSE IF ~AllDicts(Head(entries).recs) THEN [st EXCEPT !.failed = TRUE]
    ELSE RestorePlaylists(
            [st EXCEPT !.pls = AddedPlaylist(st.pls, Head(entries).name,
                                   Refs(st.heap, Len(Head(entries).recs))),
                       !.plist = Append(st.plist, Head(entries).name),
                       !.heap = FromDicts(st.heap, Head(entries).recs)],
            Tail(entries))

\* if folders: self.library.folders = folders; self.library.load()
RestoreFolders(st, fl) ==
    IF fl = <<>> THEN st
    ELSE [st EXCEPT !.folders = fl,
                    !.heap = LoadHeap(st.heap, fl),
                    !.tracks = LoadTracks(st.heap, fl),
                    !.ltable = LoadTable(fl),
                    !.workers = Append(st.workers, NewWorker(fl))]

\* a bug RestoredIndex could have: the saved index is not used
RestoredIndexFirst(pi, n) == 0

\* min(data.get('play_index', 0), len(self._queue) - 1)
RestoredIndex(pi, n) == Min(pi, n - 1)

\* if q: queue, play index, queue table
RestoreQueue(st, q, pi) ==
    IF q = <<>> THEN st
    ELSE IF ~AllDicts(q) THEN [st EXCEPT !.failed = TRUE]
    ELSE [st EXCEPT !.heap = FromDicts(st.heap, q),
                    !.queue = Refs(st.heap, Len(q)),
                    !.play_index = RestoredIndex(pi, Len(q)),
                    !.qtable = sync_queue_table(Refs(st.heap, Len(q)))]

\* The state _load_state leaves when it starts in st and finds the file
\* `data`: each statement of the try block up to the first that raises.
Restored(st, data) ==
    IF ~data.exists THEN st
    ELSE IF ~data.valid THEN [st EXCEPT !.failed = TRUE]
    ELSE IF RestorePlaylists(RestoreFolders(st, data.folders),
                             data.playlists).failed
    THEN RestorePlaylists(RestoreFolders(st, data.folders), data.playlists)
    ELSE RestoreQueue(
            RestorePlaylists(RestoreFolders(st, data.folders), data.playlists),
            data.queue, data.play_index)

LoadOutcome(st, data) ==
    IF ~data.exists THEN "no file"
    ELSE IF Restored(st, data).failed THEN "failed" ELSE "restored"

load_state(data) ==
    /\ pc = "init"
    /\ pc' = "running"
    /\ (data.exists /\ data.valid /\ data.folders # <<>>)
          => Len(workers) < MaxLoads
    /\ folders' = Restored(Current, data).folders
    /\ heap' = Restored(Current, data).heap
    /\ tracks' = Restored(Current, data).tracks
    /\ ltable' = Restored(Current, data).ltable
    /\ workers' = Restored(Current, data).workers
    /\ pls' = Restored(Current, data).pls
    /\ plist' = Restored(Current, data).plist
    /\ queue' = Restored(Current, data).queue
    /\ play_index' = Restored(Current, data).play_index
    /\ qtable' = Restored(Current, data).qtable
    /\ Done("_load_state", LoadOutcome(Current, data))
    /\ UNCHANGED <<events, player, playBtn, now_label, lyrics, fetchers,
                   history, env, seek>>

(* --------------------------- _save_state ------------------------------- *)
TrackDicts(h, refs) == [i \in 1..Len(refs) |-> to_dict(h[refs[i]])]

\* the file _save_state writes; the keys of _pls are in insertion order
save_state ==
    [exists |-> TRUE, valid |-> TRUE, folders |-> folders,
     playlists |-> [i \in 1..Len(FirstSeen(plist)) |->
                      [name |-> FirstSeen(plist)[i],
                       recs |-> TrackDicts(heap, pls[FirstSeen(plist)[i]])]],
     queue |-> TrackDicts(heap, queue),
     play_index |-> play_index]

\* what MainWindow.__init__ has built when it reaches _load_state()
Fresh(df) ==
    [folders |-> df, heap |-> LoadHeap(<<>>, df), tracks |-> LoadTracks(<<>>, df),
     ltable |-> LoadTable(df), workers |-> <<NewWorker(df)>>, pls |-> <<>>,
     plist |-> <<>>, queue |-> <<>>, play_index |-> 0, qtable |-> <<>>,
     failed |-> FALSE]

\* The application quits (aboutToQuit runs _save_state) and is started again:
\* the new MainWindow is constructed and its _load_state reads the file.
new_session ==
    /\ pc = "running"
    /\ pc' = "restarted"
    /\ folders' = Restored(Fresh(env.defaults), save_state).folders
    /\ heap' = Restored(Fresh(env.defaults), save_state).heap
    /\ tracks' = Restored(Fresh(env.defaults), save_state).tracks
    /\ ltable' = Restored(Fresh(env.defaults), save_state).ltable
    /\ workers' = Restored(Fresh(env.defaults), save_state).workers
    /\ pls' = Restored(Fresh(env.defaults), save_state).pls
    /\ plist' = Restored(Fresh(env.defaults), save_state).plist
    /\ queue' = Restored(Fresh(env.defaults), save_state).queue
    /\ play_index' = Restored(Fresh(env.defaults), save_state).play_index
    /\ qtable' = Restored(Fresh(env.defaults), save_state).qtable
    /\ events' = <<>>
    /\ player' = IdlePlayer
    /\ playBtn' = "play"
    /\ now_label' = 0
    /\ lyrics' = NoLyrics
    /\ fetchers' = <<>>
    /\ seek' = SliderAtStart
    /\ Done("new session", LoadOutcome(Fresh(env.defaults), save_state))
    /\ UNCHANGED <<history, env>>

(* ------------------------- LyricsPanel._tick --------------------------- *)
\* _highlight(i): the document with line i (counted from 0) marked
Highlighted(doc, i) == [kind |-> "highlighted", doc |-> doc, line |-> i]

RECURSIVE Forward(_, _, _)
\* while i+1 < len(self.lines) and self.lines[i+1][0] <= sec: i += 1
Forward(lines, i, sec) ==
    IF i + 1 < Len(lines) /\ lines[i + 2][1] <= sec
    THEN Forward(lines, i + 1, sec)
    ELSE i

RECURSIVE Backward(_, _, _)
\* while i > 0 and self.lines[i][0] > sec: i -= 1
Backward(lines, i, sec) ==
    IF i > 0 /\ lines[i + 1][1] > sec
    THEN Backward(lines, i - 1, sec)
    ELSE i

\* self.lines[i] with i > 0 past the end of the list raises IndexError: idx
\* was set for an earlier, longer document
TickRaises(lines, idx, sec) ==
    Forward(lines, idx, sec) > 0 /\ Forward(lines, idx, sec) >= Len(lines)

TickIndex(lines, idx, sec) == Backward(lines, Forward(lines, idx, sec), sec)

\* float(self._get_time_cb() or 0.0), in hundredths of a second
Sec(pl) == pl.pos * 100

\* the 200 ms highlight timer
tick ==
    /\ pc = "running"
    /\ IF lyrics.lines = <<>>
       THEN /\ UNCHANGED lyrics
            /\ Done("_tick", "no lines")
       ELSE IF TickRaises(lyrics.lines, lyrics.idx, Sec(player))
       THEN /\ UNCHANGED lyrics
            /\ Done("_tick", "error")
       ELSE IF /\ TickIndex(lyrics.lines, lyrics.idx, Sec(player)) # lyrics.idx
               /\ 0 <= TickIndex(lyrics.lines, lyrics.idx, Sec(player))
               /\ TickIndex(lyrics.lines, lyrics.idx, Sec(player)) < Len(lyrics.lines)
       THEN /\ lyrics' =
                 [lyrics EXCEPT
                    !.idx = TickIndex(lyrics.lines, lyrics.idx, Sec(player)),
                    !.html = Highlighted(lyrics.lines,
                                TickIndex(lyrics.lines, lyrics.idx, Sec(player)))]
            /\ Done("_tick", "moved")
       ELSE /\ UNCHANGED lyrics
            /\ Done("_tick", "same")
    /\ UNCHANGED <<pc, libVars, events, queueVars, qtable, player, playBtn,
                   now_label, fetchers, history, plVars, env, seek>>

(* --------------------------- the seek slider --------------------------- *)
\* Player.get_length_seconds: 0 without a medium; the engine reports
\* LengthSec seconds for every file
LengthSec == 5

get_length_seconds(pl) == IF pl.media = 0 THEN 0 ELSE LengthSec

SliderMax == 1000

\* int((pos/length)*1000)
SliderValue(pos, length) == (pos * SliderMax) \div length

\* (self.seek.value()/1000.0) * length, in whole seconds
SliderSeconds(value, length) == (value * length) \div SliderMax

\* where the user can put the handle: the marks of whole seconds
SliderStops == {SliderValue(s, LengthSec) : s \in 0..Min(MaxPos, LengthSec)}

\* _seek_to: self.player.seek_seconds(pos*length)
seek_to_slider(pl, sl) ==
    seek_seconds(pl, SliderSeconds(sl.value, get_length_seconds(pl)))

\* the user presses the handle
sliderPressed ==
    /\ pc = "running"
    /\ ~seek.down
    /\ seek' = [seek EXCEPT !.down = TRUE]
    /\ Done("sliderPressed", 0)
    /\ UNCHANGED <<pc, libVars, events, queueVars, playVars, plVars, env>>

\* the user drags the held handle to v
sliderMoved(v) ==
    /\ pc = "running"
    /\ seek.down
    /\ seek' = [seek EXCEPT !.value = v]
    /\ Done("sliderMoved", v)
    /\ UNCHANGED <<pc, libVars, events, queueVars, playVars, plVars, env>>

\* the user lets go: sliderReleased is connected to _seek_to
sliderReleased ==
    /\ pc = "running"
    /\ seek.down
    /\ seek' = [seek EXCEPT !.down = FALSE]
    /\ player' = seek_to_slider(player, seek)
    /\ Done("_seek_to", seek.value)
    /\ UNCHANGED <<pc, libVars, events, queueVars, qtable, playBtn, now_label,
                   lyrics, fetchers, history, plVars, env>>

\* the 500 ms timer: _refresh_seek writes the polled position to the slider
refresh_seek ==
    /\ pc = "running"
    /\ IF get_length_seconds(player) > 0
       THEN seek' = [seek EXCEPT !.value =
                        SliderValue(player.pos, get_length_seconds(player))]
       ELSE UNCHANGED seek
    /\ Done("_refresh_seek", 0)
    /\ UNCHANGED <<pc, libVars, events, queueVars, playVars, plVars, env>>

\* press, drag to the mark of second s and release with no timer in between
seek_to(s) ==
    /\ pc = "running"
    /\ ~seek.down
    /\ seek' = [seek EXCEPT !.value = SliderValue(s, LengthSec)]
    /\ player' = seek_seconds(player, s)
    /\ Done("_seek_to", s)
    /\ UNCHANGED <<pc, libVars, events, queueVars, qtable, playBtn, now_label,
                   lyrics, fetchers, history, plVars, env>>

(* ------------------------- specifications ------------------------------ *)
\* the main thread's queue and playback handlers, and the engine
NextQueue ==
    \/ \E data \in SavedStates : load_state(data)
    \/ \E t \in 1..Len(heap) : play_track(t)
    \/ \E name \in PlNames : play_playlist(name)
    \/ prev_track
    \/ next_track
    \/ on_track_end
    \/ \E row \in 0..(2 * NumFiles) : play_from_queue(row)
    \/ \E i, j \in 1..(2 * NumFiles), kept \in BOOLEAN : dropEvent(i, j, kept)
    \/ on_end
    \/ get_position_seconds
    \/ toggle_play

\* scans and the metadata threads
NextScan ==
    \/ \E data \in FolderStates : load_state(data)
    \/ Rescan
    \/ \E d \in FolderIds : add_folder(d)
    \/ \E w \in 1..MaxLoads : load_metadata_async(w)
    \/ update_row

\* the lyrics fetch threads and their queued calls
NextLyrics ==
    \/ \E f \in 1..MaxFetch, o \in FetchOutcomes : fetch_online(f, o)
    \/ render
    \/ render_plain
    \/ setHtml

\* handlers the claims about the queue do not involve
NextOther ==
    \/ toggle_repeat
    \/ \E name \in PlNames : save_current(name)

\* ./my_music_history.json, the file _make_recommended reads: whether it
\* exists and the "artist" values of its entries
NoRecoFile == [exists |-> FALSE, artists |-> <<>>]

\* every file has a sidecar, the history file cannot be written, the engine
\* loads every file, the position is observed every 4 seconds, there is no
\* file for the recommender; defaults are the folders found at start-up
QuietEnv ==
    [lrc |-> Paths, sidecar |-> [p \in Paths |-> SidecarText(p)],
     kind |-> [p \in Paths |-> FileKind(p)],
     histOk |-> FALSE, loadFail |-> FALSE, step |-> 4,
     reco |-> NoRecoFile, defaults |-> <<1>>]

Init == InitWith(<<1>>, QuietEnv)

SpecQueue == Init /\ [][NextQueue]_vars

SpecScan == Init /\ [][NextScan]_vars

\* as QuietEnv, but only file 1 has a sidecar
FetchEnv == [QuietEnv EXCEPT !.lrc = {1}]

InitLyrics == InitWith(<<1>>, FetchEnv)

NextLyricsSession ==
    \/ load_state(NoFile)
    \/ \E t \in 1..Len(heap) : play_track(t)
    \/ next_track
    \/ \E w \in 1..MaxLoads : load_metadata_async(w)
    \/ update_row
    \/ NextLyrics

SpecLyrics == InitLyrics /\ [][NextLyricsSession]_vars

\* state files for the sessions that share tracks between containers
ShareStates ==
    {NoFile,
     Saved(<<>>, OnePlaylist, <<NumFiles>>, 0)}

\* scans, enrichment, edits and the handlers that fill queue and playlists
NextShare ==
    \/ \E data \in ShareStates : load_state(data)
    \/ Rescan
    \/ \E t \in 1..Len(heap) : play_track(t)
    \/ \E name \in PlNames : save_current(name)
    \/ \E w \in 1..MaxLoads : load_metadata_async(w)
    \/ update_row
    \/ \E row \in 0..(2 * NumFiles), f \in EditFields, v \in EditValues :
          edit_field(row, f, v)

\* as Init, but the default folder is the one that holds the last file only
InitShare == InitWith(<<2>>, QuietEnv)

SpecShare == InitShare /\ [][NextShare]_vars

\* as QuietEnv, but the history file can be read and written
HistEnv == [QuietEnv EXCEPT !.histOk = TRUE]

InitHistory == InitWith(<<1>>, HistEnv)

HistStates ==
    {NoFile,
     Saved(<<>>, OnePlaylist, <<2, 1>>, 1)}

\* everything that starts a track, with repeat mode
NextHistory ==
    \/ \E data \in HistStates : load_state(data)
    \/ \E t \in 1..Len(heap) : play_track(t)
    \/ \E name \in PlNames : play_playlist(name)
    \/ prev_track
    \/ next_track
    \/ on_track_end
    \/ \E row \in 0..(2 * NumFiles) : play_from_queue(row)
    \/ on_end
    \/ get_position_seconds
    \/ toggle_repeat

SpecHistory == InitHistory /\ [][NextHistory]_vars

\* a file for the recommender with the given "artist" values
RecoFile(artists) == [exists |-> TRUE, artists |-> artists]

\* sessions that log plays: the recommender's file is missing, or holds an
\* entry of each artist
RecoLogEnvs ==
    {[HistEnv EXCEPT !.reco = f] :
        f \in {NoRecoFile, RecoFile(<<UnknownArtist, <<"artist", 1>> >>)}}

InitRecoLog == \E e \in RecoLogEnvs : InitWith(<<1>>, e)

\* plays, enrichment and the recommender
NextRecoLog ==
    \/ load_state(NoFile)
    \/ \E t \in 1..Len(heap) : play_track(t)
    \/ next_track
    \/ \E w \in 1..MaxLoads : load_metadata_async(w)
    \/ update_row
    \/ make_recommended

SpecRecoLog == InitRecoLog /\ [][NextRecoLog]_vars

\* as QuietEnv, but the engine may fail to load a file
LoadFailEnv == [QuietEnv EXCEPT !.loadFail = TRUE]

InitLoadFail == InitWith(<<1>>, LoadFailEnv)

\* playback with an engine that can fail
NextLoadFail ==
    \/ load_state(NoFile)
    \/ \E t \in 1..Len(heap) : play_track(t)
    \/ prev_track
    \/ next_track
    \/ on_track_end
    \/ on_end
    \/ get_position_seconds
    \/ toggle_play

SpecLoadFail == InitLoadFail /\ [][NextLoadFail]_vars

\* "artist" values of history entries: none, the placeholder, tag values
RecoArtists == {Empty, UnknownArtist} \cup {<<"artist", k>> : k \in 1..3}

RECURSIVE SeqsUpTo(_, _)
\* the sequences over S of length at most n
SeqsUpTo(S, n) ==
    IF n = 0 THEN {<<>>}
    ELSE SeqsUpTo(S, n - 1)
            \cup {Append(q, x) : q \in {r \in SeqsUpTo(S, n - 1) : Len(r) = n - 1},
                                  x \in S}

\* a longer history: artists A, A, B, A, C, C, B
ExampleHistory ==
    << <<"artist", 1>>, <<"artist", 1>>, <<"artist", 2>>, <<"artist", 1>>,
       <<"artist", 3>>, <<"artist", 3>>, <<"artist", 2>> >>

\* what the recommender's file may hold
RecoFiles ==
    {NoRecoFile} \cup {RecoFile(a) : a \in SeqsUpTo(RecoArtists, MaxRecoLen)}
        \cup {RecoFile(ExampleHistory)}

InitReco == \E f \in RecoFiles : InitWith(<<1>>, [QuietEnv EXCEPT !.reco = f])

\* enrichment and the recommender
NextReco ==
    \/ load_state(NoFile)
    \/ \E w \in 1..MaxLoads : load_metadata_async(w)
    \/ update_row
    \/ make_recommended

SpecReco == InitReco /\ [][NextReco]_vars

\* the first session finds no state file, or one that an earlier session
\* wrote, or one with a negative index
RoundStates ==
    {NoFile,
     Saved(<<2>>, OnePlaylist, <<1, 2>>, 1),
     Saved(<<>>, <<>>, <<NumFiles>>, -2)}

\* no default folder exists, or the one that holds the last file only
InitRound == \E df \in {<<>>, <<2>>} : InitWith(df, QuietEnv)

\* sessions that change playlists, queue, index and metadata, and restarts
NextRound ==
    \/ \E data \in RoundStates : load_state(data)
    \/ \E t \in 1..Len(heap) : play_track(t)
    \/ \E name \in PlNames : play_playlist(name)
    \/ next_track
    \/ \E name \in PlNames : save_current(name)
    \/ \E row \in 0..(2 * NumFiles), f \in EditFields, v \in EditValues :
          edit_field(row, f, v)
    \/ new_session

SpecRound == InitRound /\ [][NextRound]_vars

\* state files that do not restore: one that is not JSON, one whose queue
\* holds an element that is not an object, one whose second playlist does;
\* and one that restores
Unparsable == [NoFile EXCEPT !.exists = TRUE, !.valid = FALSE]

BadQueue ==
    [Saved(<<2>>, OnePlaylist, <<1>>, 0) EXCEPT !.queue = <<SavedRec(1), BadRec>>]

BadPlaylist ==
    [Saved(<<>>, OnePlaylist, <<1>>, 0) EXCEPT
        !.playlists = @ \o <<[name |-> "B", recs |-> <<BadRec>>]>>]

FailStates ==
    {NoFile, Unparsable, BadQueue, BadPlaylist,
     Saved(<<2>>, OnePlaylist, <<1, 2>>, 1)}

\* sessions that start from any of these files
NextRestoreFail ==
    \/ \E data \in FailStates : load_state(data)
    \/ \E t \in 1..Len(heap) : play_track(t)
    \/ \E name \in PlNames : play_playlist(name)
    \/ next_track
    \/ \E name \in PlNames : save_current(name)

SpecRestoreFail == InitRound /\ [][NextRestoreFail]_vars

\* as FetchEnv, but the position is observed every second
TickEnv == [FetchEnv EXCEPT !.step = 1]

InitTick == InitWith(<<1, 2>>, TickEnv)

\* playback, seeks, lyrics from the sidecar and from the network, the timer
NextTick ==
    \/ load_state(NoFile)
    \/ \E t \in 1..Len(heap) : play_track(t)
    \/ prev_track
    \/ get_position_seconds
    \/ \E s \in 0..MaxPos : seek_to(s)
    \/ tick
    \/ NextLyrics

SpecTick == InitTick /\ [][NextTick]_vars

\* brackets and pieces of the sidecar texts: "[00:01.50]", "[00:05]",
\* "[1:5]", "[00:01.5]", "[00:01.500]"; "Hello", "World"
T0150 == Bracket(<<0, 0>>, <<0, 1>>, <<5, 0>>)
T0500 == Bracket(<<0, 0>>, <<0, 5>>, <<>>)
TShort == Bracket(<<1>>, <<5>>, <<>>)
TTenth == Bracket(<<0, 0>>, <<0, 1>>, <<5>>)
TMillis == Bracket(<<0, 0>>, <<0, 1>>, <<5, 0, 0>>)
Hello == Piece(<<"Hello", 0>>)
World == Piece(<<"World", 0>>)

MaxTextLines == 2

\* the lines a sidecar text is made of
ParseLines ==
    {<<T0150, T0500, Hello>>,
     <<T0500, Hello>>,
     <<Hello>>,
     <<>>,
     <<T0150>>,
     <<T0500, Space, World, Space>>,
     <<Hello, T0150, World>>,
     <<T0500, T0150, World>>,
     <<T0150, T0150, Hello>>,
     <<TMillis, Hello>>,
     <<TTenth, Hello>>,
     <<TShort, World>>}

ParseTexts == SeqsUpTo(ParseLines, MaxTextLines)

\* every sidecar file holds the same text, any of ParseTexts
InitParse ==
    \E text \in ParseTexts :
        InitWith(<<1>>, [QuietEnv EXCEPT !.sidecar = [p \in Paths |-> text]])

\* sessions that load the sidecar and follow the position
NextParse ==
    \/ load_state(NoFile)
    \/ \E t \in 1..Len(heap) : play_track(t)
    \/ get_position_seconds
    \/ tick

SpecParse == InitParse /\ [][NextParse]_vars

\* as HistEnv (every start is logged, which bounds the starts of a session),
\* but only file 1 has a sidecar
ResolveEnv == [HistEnv EXCEPT !.lrc = {1}]

InitResolve == InitWith(<<1, 2>>, ResolveEnv)

\* the fetch threads, and the main thread's queued calls
FetchThreads == \E f \in 1..MaxFetch, o \in FetchOutcomes : fetch_online(f, o)
QueuedCalls == render \/ render_plain \/ setHtml

\* track starts and lyrics resolutions
NextResolve ==
    \/ load_state(NoFile)
    \/ \E t \in 1..Len(heap) : play_track(t)
    \/ next_track
    \/ FetchThreads
    \/ QueuedCalls

\* a started thread runs to its end (urlopen has a timeout), and the event
\* loop of the main thread delivers every queued call
SpecResolve ==
    /\ InitResolve
    /\ [][NextResolve]_vars
    /\ WF_vars(FetchThreads)
    /\ WF_vars(QueuedCalls)

\* as QuietEnv, but the position is observed every second
ScrubEnv == [QuietEnv EXCEPT !.step = 1]

InitScrub == InitWith(<<1>>, ScrubEnv)

\* playback, the user's hand on the slider, and the slider's timer
NextScrub ==
    \/ load_state(NoFile)
    \/ \E t \in 1..Len(heap) : play_track(t)
    \/ get_position_seconds
    \/ toggle_play
    \/ sliderPressed
    \/ \E v \in SliderStops : sliderMoved(v)
    \/ sliderReleased
    \/ refresh_seek

SpecScrub == InitScrub /\ [][NextScrub]_vars

FileKinds == {"tagged", "notags", "partial", "bad"}

\* the files are of any kind
InitMeta ==
    \E k \in [Paths -> FileKinds] :
        InitWith(<<1>>, [QuietEnv EXCEPT !.kind = k])

\* the metadata threads of a session and of a restored folder list
NextMeta ==
    \/ \E data \in {NoFile, Saved(<<2>>, <<>>, <<>>, 0)} : load_state(data)
    \/ \E w \in 1..MaxLoads : load_metadata_async(w)
    \/ update_row

SpecMeta == InitMeta /\ [][NextMeta]_vars

\* playlists made from the queue, restored from a state file, and extended
\* from the library
NextPlaylist ==
    \/ \E data \in {NoFile, Saved(<<>>, OnePlaylist, <<>>, 0)} : load_state(data)
    \/ \E t \in 1..Len(heap) : play_track(t)
    \/ \E name \in PlNames : save_current(name)
    \/ \E name \in PlNames : play_playlist(name)
    \/ \E row \in 0..NumFiles, name \in PlNames \cup {""} :
          add_to_playlist(row, name)

SpecPlaylist == Init /\ [][NextPlaylist]_vars

\* the whole application
Next ==
    NextQueue \/ NextScan \/ NextLyrics \/ NextOther \/ NextShare \/ NextHistory
        \/ NextRecoLog \/ NextLoadFail \/ NextReco \/ NextRound
        \/ NextRestoreFail \/ NextTick \/ NextParse \/ NextResolve
        \/ NextScrub \/ NextMeta \/ NextPlaylist

Spec == Init /\ [][Next]_vars

(* ============================= the claims ============================== *)
ValidIndex(q, i) == 0 <= i /\ i <= Len(q) - 1

\* C1: whenever the queue is non-empty the play index is within
\* 0 .. len(queue)-1, whatever play_index the state file held.
C1_IndexInBounds ==
    queue # <<>> => ValidIndex(queue, play_index)

\* C2: when _on_track_end handles the engine's end-of-track with repeat off
\* and the index on the last queue entry, the player is left not playing and
\* at the position where it ended: nothing is loaded or started again.
C2_EndOfQueueStops ==
    [][(/\ last'.op = "_on_track_end"
        /\ player.state = "ended"
        /\ ~player.repeat
        /\ queue # <<>>
        /\ play_index = Len(queue) - 1)
       => (player'.state # "playing" /\ player' = player)]_vars

Rotation(s, k) == SubSeq(s, k, Len(s)) \o SubSeq(s, 1, k - 1)

PathAt(k) == heap[tracks[k]].path

RECURSIVE Advanced(_, _, _)
\* the index after n presses of next from index i in queue q
Advanced(q, i, n) ==
    IF n = 0 THEN i ELSE Advanced(q, Min(Len(q) - 1, i + 1), n - 1)

\* C4 as stated: on a non-empty queue next_track sets the index to
\* min(len-1, i+1) and prev_track sets it to max(0, i-1).
C4_PrevAlwaysSteps ==
    [][(queue # <<>> /\ last'.op = "next_track"
            => play_index' = Min(Len(queue) - 1, play_index + 1))
       /\ (queue # <<>> /\ last'.op = "prev_track"
            => play_index' = Max(0, play_index - 1))]_vars

\* C4 amended: on a non-empty queue next_track sets the index to
\* min(len-1, i+1); prev_track sets it to max(0, i-1) when the playback
\* position is at most 3 seconds and leaves it unchanged otherwise; neither
\* wraps around, and len(queue) presses of next from any index of the queue
\* end on len(queue)-1.
C4_ClampedSteps ==
    [][/\ (queue # <<>> /\ last'.op = "next_track")
            => /\ play_index' = Min(Len(queue) - 1, play_index + 1)
               /\ (ValidIndex(queue, play_index) => play_index' >= play_index)
               /\ \A i \in 0..(Len(queue) - 1) :
                     Advanced(queue, i, Len(queue)) = Len(queue) - 1
       /\ (queue # <<>> /\ last'.op = "prev_track")
            => /\ play_index' = IF player.pos > 3 THEN play_index
                                 ELSE Max(0, play_index - 1)
               /\ (ValidIndex(queue, play_index) => play_index' <= play_index)
      ]_vars

\* prev_track ran more than 3 seconds into a track that is not the first
C4_Witness ==
    /\ last.op = "prev_track"
    /\ last.arg = "seek"
    /\ play_index > 0
    /\ ValidIndex(queue, play_index)

Count(s, x) == Cardinality({i \in 1..Len(s) : s[i] = x})

IsPermutation(a, b) ==
    /\ Len(a) = Len(b)
    /\ \A i \in 1..Len(a) : Count(a, a[i]) = Count(b, a[i])

\* C5: when a drag-reorder leaves the table a permutation of the queue, the
\* rebuilt queue's current index designates the track that was current.
C5_CurrentTrackKept ==
    [][(/\ last'.op = "_rebuild_queue_from_table"
        /\ ValidIndex(queue, play_index)
        /\ IsPermutation(qtable', queue))
       => (/\ ValidIndex(queue', play_index')
           /\ queue'[play_index' + 1] = queue[play_index + 1])]_vars

\* C6: a rebuild that finds no track in the table (an empty order) leaves a
\* non-empty queue, its order and the play index as they were.
C6_EmptyOrderIsNoOp ==
    [][(/\ last'.op = "_rebuild_queue_from_table"
        /\ queue # <<>>
        /\ \A r \in 1..Len(qtable') : qtable'[r] = 0)
       => (queue' = queue /\ play_index' = play_index)]_vars

\* a rebuild has just run on a table without any track, the queue holds one
C6_Witness ==
    /\ last.op = "_rebuild_queue_from_table"
    /\ queue # <<>>
    /\ qtable # <<>>
    /\ \A r \in 1..Len(qtable) : qtable[r] = 0

CatalogPaths == [i \in 1..Len(tracks) |-> heap[tracks[i]].path]
TablePaths == [i \in 1..Len(ltable) |-> ltable[i].path]

\* C7: a metadata result read from file p is applied only to the catalog
\* entry (and table row) whose path is p.
C7_AppliedToOwnPath ==
    last.op = "_update_row" =>
        /\ ltable[last.arg.row + 1].path = last.arg.path
        /\ heap[tracks[last.arg.row + 1]].path = last.arg.path

\* C8: delivering a result whose file is no longer in the catalog changes
\* neither the catalog nor the table.
C8_LateResultIsNoOp ==
    [][(/\ last'.op \in {"_update_row", "_update_row dropped"}
        /\ \A i \in 1..Len(tracks) : PathAt(i) # last'.arg.path)
       => UNCHANGED <<heap, tracks, ltable>>]_vars

\* C9: the tracks, the queue and the lyrics lines are written by the main
\* thread only.
C9_OnlyMainWrites ==
    [][(heap' # heap \/ tracks' # tracks \/ queue' # queue
            \/ lyrics'.lines # lyrics.lines)
       => last'.by = "main"]_vars

\* C10: the catalog's paths, and the table's, are those phase 1 of the scan
\* found, in that order, however many results have been applied.
C10_PathsKept ==
    /\ CatalogPaths = ScanPaths(folders)
    /\ TablePaths = ScanPaths(folders)

\* a result has been applied and the entry carries the file's tags
C10_Witness ==
    /\ last.op = "_update_row"
    /\ heap[tracks[last.arg.row + 1]].title = last.arg.title
    /\ \E i \in 1..Len(tracks) : heap[tracks[i]].artist # UnknownArtist

\* the tracks every container holds
Holders ==
    Range(tracks) \cup Range(queue)
        \cup UNION {Range(pls[n]) : n \in DOMAIN pls}

Meta(h, t) == <<h[t].title, h[t].artist, h[t].album, h[t].genre>>

\* C11: when an operation changes the title, artist, album or genre of a
\* held track, every entry of the catalog, the queue and the playlists with
\* that track's path shows the new values.
C11_VisibleEverywhere ==
    [][\A x \in Holders' :
          (x <= Len(heap) /\ Meta(heap', x) # Meta(heap, x))
          => \A b \in Holders' :
                heap'[b].path = heap'[x].path => Meta(heap', b) = Meta(heap', x)
      ]_vars

\* The track a step starts, 0 when it starts none: _play_current got past
\* its first line, or the engine restarted the track in repeat mode.
StartedTrack ==
    IF last'.op = "play_track" THEN queue'[1]
    ELSE IF last'.op = "play_playlist" /\ last'.arg = "play" THEN queue'[1]
    ELSE IF last'.op = "_play_from_queue" /\ last'.arg = "play"
    THEN queue'[play_index' + 1]
    ELSE IF \/ last'.op \in {"next_track", "_on_track_end"} /\ queue # <<>>
            \/ last'.op = "prev_track" /\ last'.arg = "step"
    THEN IF InRange(queue', play_index') THEN PyIndex(queue', play_index') ELSE 0
    ELSE 0

RepeatRestart == last'.op = "_on_end" /\ player.repeat

IsPrefix(a, b) == Len(a) <= Len(b) /\ SubSeq(b, 1, Len(a)) = a

\* C12: every step that starts a track (play_track, play_playlist, next,
\* previous, a queue click, the advance at the end of a track, a restart in
\* repeat mode) appends exactly one entry to the history, and every step
\* leaves the earlier entries as they were.
C12_EveryStartLogged ==
    [][/\ (StartedTrack # 0 \/ RepeatRestart)
            => (Len(history') = Len(history) + 1 /\ IsPrefix(history, history'))
       /\ IsPrefix(history, history')
      ]_vars

HistoryArtists == [i \in 1..Len(history) |-> history[i].artist]

\* C13: when the recommender runs after tracks have been started, the log it
\* counts holds the entries appended for those starts: every artist is in it
\* at least as often as tracks of that artist were started.
C13_RecommenderReadsLog ==
    (last.op = "_make_recommended" /\ history # <<>>) =>
        /\ env.reco.exists
        /\ \A i \in 1..Len(history) :
              Occurrences(env.reco.artists, history[i].artist)
                  >= Occurrences(HistoryArtists, history[i].artist)

\* a step started a track and the engine does not hold that track's file:
\* Player.load failed
LoadFailed ==
    /\ StartedTrack # 0
    /\ player'.media # heap'[StartedTrack].path

\* C14: when the engine fails to load the track a step starts, the player is
\* not playing afterwards and the play button does not show the playing
\* state.
C14_FailedLoadStaysIdle ==
    [][LoadFailed => (player'.state # "playing" /\ playBtn' # "pause")]_vars

\* the artists a log names: entries with an empty artist name none
ArtistsOf(s) == Range(s) \ {Empty}

FirstAt(s, a) ==
    CHOOSE i \in 1..Len(s) : s[i] = a /\ \A j \in 1..(i - 1) : s[j] # a

\* a was played more often than b, or as often and encountered first
Outranks(s, a, b) ==
    \/ Occurrences(s, a) > Occurrences(s, b)
    \/ /\ Occurrences(s, a) = Occurrences(s, b)
       /\ FirstAt(s, a) < FirstAt(s, b)

IsTopThree(sel, s) ==
    /\ Len(sel) = Min(3, Cardinality(ArtistsOf(s)))
    /\ \A i \in 1..Len(sel) : sel[i] \in ArtistsOf(s)
    /\ \A i, j \in 1..Len(sel) : i < j => Outranks(s, sel[i], sel[j])
    /\ \A a \in ArtistsOf(s) \ Range(sel) :
          \A i \in 1..Len(sel) : Outranks(s, sel[i], a)

\* C15: the artists the recommender selects are the three (or fewer, when the
\* log names fewer) with the highest play counts over all entries of the log,
\* highest first, ties broken by which artist was encountered first; for the
\* log A, A, B, A, C, C, B the selection is A, B, C.
C15_TopThreeArtists ==
    (last.op = "_make_recommended" /\ env.reco.exists) =>
        /\ IsTopThree(last.arg, env.reco.artists)
        /\ env.reco.artists = ExampleHistory
              => last.arg = << <<"artist", 1>>, <<"artist", 2>>, <<"artist", 3>> >>

\* the recommender ran on a log that names four artists, the third and the
\* fourth played equally often: a tie decides who is selected
C15_Witness ==
    /\ last.op = "_make_recommended"
    /\ env.reco.exists
    /\ Cardinality(ArtistsOf(env.reco.artists)) >= 4
    /\ Len(last.arg) = 3
    /\ \E a \in ArtistsOf(env.reco.artists) \ Range(last.arg) :
          Occurrences(env.reco.artists, a)
              = Occurrences(env.reco.artists, last.arg[3])

\* the catalog tracks whose artist is one of `top`, in catalog order
ByTopArtists(top, allt, h) ==
    SelectSeq(allt, LAMBDA t : \E i \in 1..Len(top) : h[t].artist = top[i])

\* C16: the recommended playlist holds exactly the catalog tracks whose
\* artist is one of the selected artists, in catalog order; it is empty when
\* the log names no artist.
C16_CatalogOrder ==
    (last.op = "_make_recommended" /\ env.reco.exists) =>
        /\ pls[RecoName] = ByTopArtists(last.arg, tracks, heap)
        /\ ArtistsOf(env.reco.artists) = {} => pls[RecoName] = <<>>

\* C17: when the application is quit and started again, the new session has
\* the folders list, the playlists (names and ordered track records), the
\* queue records and the play index that were saved: saving again would
\* write the same file.
C17_RoundTrip ==
    [][last'.op = "new session" => save_state' = save_state]_vars

\* a restart has restored added folders, a playlist and a queue whose
\* current track is not the first
C17_Witness ==
    /\ last.op = "new session"
    /\ folders # env.defaults
    /\ DOMAIN pls # {}
    /\ Len(queue) >= 2
    /\ play_index > 0

\* C18: when restoring the persisted state fails (the file is not JSON, or a
\* record in it is malformed), the session is left with the defaults for
\* folders, playlists, queue and play index, as if no state file existed:
\* nothing of the file is restored.
C18_FailedRestoreIsDefault ==
    (last.op = "_load_state" /\ last.arg = "failed")
        => /\ folders = env.defaults
           /\ pls = <<>>
           /\ plist = <<>>
           /\ queue = <<>>
           /\ play_index = 0

\* the line the lyrics view shows highlighted, counted from 0; -1 for none
HighlightedLine ==
    IF lyrics.html.kind = "highlighted" THEN lyrics.html.line ELSE -1

\* the last entry whose timestamp is <= sec, counted from 0; -1 for none
ActiveLine(lines, sec) ==
    Cardinality({k \in 1..Len(lines) : lines[k][1] <= sec}) - 1

\* C19: after every highlight tick with a non-empty timed lyrics document
\* the highlighted line is the last entry whose timestamp is <= the playback
\* position, and no line is highlighted when every timestamp is greater;
\* also after the position moved backward.
C19_HighlightFollowsPosition ==
    (last.op = "_tick" /\ lyrics.lines # <<>>)
        => HighlightedLine = ActiveLine(lyrics.lines, Sec(player))

\* a time tag as the format defines it: "[mm:ss]" or "[mm:ss.cc]"
IsTimeTag(tok) ==
    /\ tok.kind = "bracket"
    /\ Len(tok.mm) = 2
    /\ Len(tok.ss) = 2
    /\ Len(tok.cc) \in {0, 2}

OnlyTimeTags(text) ==
    \A l \in 1..Len(text) : \A k \in 1..Len(text[l]) :
        text[l][k].kind = "bracket" => IsTimeTag(text[l][k])

\* minutes, seconds and hundredths of a tag, in hundredths of a second
TagTime(tok) ==
    (tok.mm[1] * 10 + tok.mm[2]) * 6000 + (tok.ss[1] * 10 + tok.ss[2]) * 100
        + (IF tok.cc = <<>> THEN 0 ELSE tok.cc[1] * 10 + tok.cc[2])

\* the text of a line: what is not a tag, without the blanks around it
Words(raw) == SelectSeq(raw, LAMBDA tok : tok.kind = "text")
NonBlank(raw) == {k \in 1..Len(Words(raw)) : Words(raw)[k] # Space}
TextOfLine(raw) ==
    IF NonBlank(raw) = {} THEN <<>>
    ELSE SubSeq(Words(raw),
                CHOOSE k \in NonBlank(raw) : \A j \in NonBlank(raw) : k <= j,
                CHOOSE k \in NonBlank(raw) : \A j \in NonBlank(raw) : k >= j)

\* the tags of a text, as <<line, token>> positions
TagsOf(text) ==
    {lk \in (1..Len(text)) \X (1..4) :
        lk[2] <= Len(text[lk[1]]) /\ IsTimeTag(text[lk[1]][lk[2]])}

EntryOf(text, lk) == <<TagTime(text[lk[1]][lk[2]]), TextOfLine(text[lk[1]])>>

\* doc holds one entry per tag of the text and nothing else
OneEntryPerTag(text, doc) ==
    /\ Len(doc) = Cardinality(TagsOf(text))
    /\ \A lk \in TagsOf(text) :
          Cardinality({i \in 1..Len(doc) : doc[i] = EntryOf(text, lk)})
             = Cardinality({x \in TagsOf(text) : EntryOf(text, x) = EntryOf(text, lk)})

Ascending(doc) ==
    \A i \in 1..Len(doc) : \A j \in i..Len(doc) : doc[i][1] <= doc[j][1]

\* the text of the sidecar the panel has loaded
LoadedText == env.sidecar[heap[lyrics.track].path]

TerminalKinds == {"timed", "plain", "notfound"}

\* a fetch thread ends by posting exactly one call, the not-found message
\* when the request failed or returned nothing
OneCallPerFetch ==
    last'.op = "_fetch_online"
        => /\ Len(fetchers') = Len(fetchers) - 1
           /\ Len(events') = Len(events) + 1
           /\ last'.arg \in {"error", "none"}
                 => events'[Len(events')].kind = "setHtml"

\* a thread is started only by a load_for that found no sidecar
FetchOnlyWithoutSidecar ==
    Len(fetchers') > Len(fetchers)
        => /\ Len(fetchers') = Len(fetchers) + 1
           /\ heap'[lyrics'.track].path \notin env.lrc
           /\ lyrics'.html.kind = "searching"

\* a load_for that found the sidecar ends at once with the timed document
SidecarIsTerminal ==
    (lyrics'.track # lyrics.track /\ heap'[lyrics'.track].path \in env.lrc)
        => /\ lyrics'.html.kind = "timed"
           /\ fetchers' = fetchers

\* a delivered call shows a terminal outcome
DeliveryIsTerminal ==
    last'.op \in {"_render", "_render_plain", "setHtml"}
        => /\ lyrics'.html.kind \in TerminalKinds
           /\ Len(events') = Len(events) - 1

\* C21: every lyrics resolution ends in exactly one terminal outcome: a
\* sidecar is parsed and shown at once and no thread is started; otherwise
\* one thread is started, it posts exactly one call (the not-found message
\* after an error or an empty answer) and that call is delivered; every
\* thread in flight ends and "searching" gives way to a terminal outcome.
C21_ResolutionTerminates ==
    /\ [][/\ OneCallPerFetch
          /\ FetchOnlyWithoutSidecar
          /\ SidecarIsTerminal
          /\ DeliveryIsTerminal]_vars
    /\ (FetchesInFlight > 0) ~> (FetchesInFlight = 0)
    /\ (lyrics.html.kind = "searching") ~> (lyrics.html.kind \in TerminalKinds)

\* a request failed and its thread posted the not-found message
C21_Witness ==
    /\ last.op = "_fetch_online"
    /\ events # <<>>
    /\ events[Len(events)].kind = "setHtml"
    /\ lyrics.html.kind = "searching"

\* C22: while the user holds the scrub slider the position poll leaves the
\* slider's value alone, and the release seeks to the position of the value
\* the slider then has, the one the user chose.
C22_HeldSliderWins ==
    [][/\ (seek.down /\ last'.op = "_refresh_seek") => seek'.value = seek.value
       /\ (seek.down /\ ~seek'.down)
             => player' = seek_to_slider(player, seek)]_vars

\* what the contract promises for a file that could not be read
Fallback(p) ==
    [title |-> Stem(p), artist |-> Empty, album |-> Empty, genre |-> Empty,
     dur_str |-> DurStr(0)]

Returned(m) ==
    [title |-> m.title, artist |-> m.artist, album |-> m.album,
     genre |-> m.genre, dur_str |-> m.dur_str]

\* C23: whenever reading the audio file or its tags failed, the values
\* read_metadata returned (those the metadata thread sends on) are the file
\* name without extension as title, empty artist, album and genre, and
\* duration 0.
C23_FailureGivesFallback ==
    \A i \in 1..Len(events) :
        (events[i].kind = "_update_row" /\ env.kind[events[i].path] # "tagged")
            => Returned(events[i]) = Fallback(events[i].path)

\* the file of the track the panel was last asked to resolve, the one that
\* is now playing
CurrentPath == heap[lyrics.track].path

\* the lines a resolution for file p can end with
ResolvedLines(p) ==
    IF p \in env.lrc THEN {LrcDoc(p)} ELSE {OnlineDoc(p), <<>>}

\* the view is a terminal outcome of a resolution for file p
ShownFor(p) ==
    IF lyrics.html.kind = "timed" THEN lyrics.html.doc \in ResolvedLines(p)
    ELSE IF lyrics.html.kind = "plain"
    THEN p \notin env.lrc /\ lyrics.html.doc = <<p>>
    ELSE lyrics.html.kind = "notfound" /\ p \notin env.lrc

\* C24: once no lyrics fetch is in flight, the lines the panel holds and the
\* view it shows are those resolved for the track that is now playing; a
\* result fetched for an earlier track has left no trace.
C24_StaleFetchDropped ==
    (FetchesInFlight = 0 /\ lyrics.track # 0)
        => /\ lyrics.lines \in ResolvedLines(CurrentPath)
           /\ ShownFor(CurrentPath)

\* C25: a value the user gave a field of a catalog entry is still there
\* after an enrichment result is delivered.
C25_EditSurvivesEnrichment ==
    [][last'.op = "_update_row"
         => \A i \in 1..Len(tracks) : \A f \in EditFields :
               heap[tracks[i]][f] = Edited => heap'[tracks[i]][f] = Edited]_vars

\* C26: the highlight index is -1 or an index into the lines the panel
\* holds, also after a fetch result has replaced the lines.
C26_IndexWithinLines ==
    lyrics.idx = -1 \/ (0 <= lyrics.idx /\ lyrics.idx < Len(lyrics.lines))

\* how many items of the playlist list carry the name
ListItems(l, name) == Cardinality({i \in 1..Len(l) : l[i] = name})

\* C27: adding a library track to a playlist whose name already exists
\* keeps the playlist's tracks in order with the new track added at the end,
\* and leaves one item for the name in the playlist list.
C27_AddKeepsPlaylist ==
    [][(last'.op = "_add_to_playlist" /\ last'.arg \in DOMAIN pls)
         => /\ \E i \in 1..Len(tracks) :
                  pls'[last'.arg] = Append(pls[last'.arg], tracks[i])
            /\ ListItems(plist', last'.arg) = 1]_vars

====
